---- MODULE Spec2Model ----
(***************************************************************************)
(* State-machine model of the useUnifiedVoiceAgent hook                    *)
(* (src/unnamed/part_001, lines 236-611).                                  *)
(*                                                                         *)
(* JavaScript runs the hook single-threaded: every action below is one     *)
(* synchronous run of code between two suspension points (an await, an     *)
(* event delivery, a timer).  The functions the hook returns close over    *)
(* the state of the render that created them (variable rendered).  The     *)
(* transport (LiveKit Room) and the backend are the environment: their     *)
(* promises resolve or reject and their events are delivered               *)
(* nondeterministically, within the order the transport itself imposes     *)
(* (noted at each action).                                                 *)
(***************************************************************************)
EXTENDS Naturals, Sequences, FiniteSets

\* ------------------------------------------------------------------ bounds

\* start attempts that get past the guards, over the whole run
MaxAttempts == 2
\* stopInference runs that may be suspended at the same time
MaxStops == 2
\* transcription segments delivered over the whole run (ids trans_0 ..)
MaxEntries == 2
\* the same, where every speaking signal of the transport is delivered too
MaxSpoken == 2
\* segments carried by one TranscriptionReceived event
MaxSegs == 2
\* remote audio tracks subscribed over the whole run
MaxTracks == 1
\* clearTranscription calls over the whole run
MaxClears == 1
\* granularity of the model's clock, in milliseconds
TickMs == 250
\* session-end requests and disconnect() calls counted per descriptor and
\* room: the count stops here
MaxCalls == 2

\* ------------------------------------------------------- program constants

\* setTimeout(..., 500) of the final-segment reset
DebounceMs == 500

NULL == 0

INFERENCE_STATES == {"IDLE", "CONNECTING", "ACTIVE", "ERROR"}

Attempts == 1..MaxAttempts
Stops == 1..MaxStops
TrackIds == 1..MaxTracks

\* inputs
AgentIds == {"", "agent-42"}
Texts == {"hi"}
Participants == {"local", "remote", "none"}
Kinds == {"audio", "video"}
\* values of new Date(), in seconds since midnight
Dates == {36000}
Segments(texts) == [text : texts, final : BOOLEAN]
SegmentLists(texts) == UNION {[1..n -> Segments(texts)] : n \in 1..MaxSegs}

VARIABLES
  \* React state of the hook (lines 240-247)
  inferenceState, isLoading, isMicOn, isConnected, isUserSpeaking,
  isTranscribing, transcription, transcriptionUpdateTrigger,
  \* refs (lines 250-253)
  roomRef, sessionRef, audioTrackRef, transcriptionIdCounter,
  \* position of every startInference run, state of the Room it created,
  \* state of the microphone enabling started by its Connected handler
  startPc, roomState, micPc,
  \* position of every suspended stopInference run and the room it disconnects
  stopPc, stopRoom,
  \* the setMicrophoneEnabled call of a suspended toggleMic run
  togglePc,
  \* pending setTimeout callbacks, in firing order
  timers,
  \* <audio> elements appended to document.body, one per subscribed track
  audioEls,
  \* history: the run that produced this state
  lastOp,
  \* history: number of attempts started, segments delivered since the last
  \* clear, clears made, attempts a stopInference was called upon in flight
  attemptCount, delivered, clearCount, cancelled,
  \* history: what the last speaking-evidence event said, and the time left
  \* of the debounce window opened by the last final user segment
  evidence, windowLeft,
  \* the inferenceState, isMicOn and transcription of the latest render: the
  \* values the callbacks of the hook close over (dependency lists of lines
  \* 475, 547 and 572) and the values the hook returns
  rendered,
  \* history: for the descriptor and the room of every attempt, the number
  \* of session-end requests sent and of room.disconnect() calls made
  endSessionCalls, disconnectCalls

reactVars == <<inferenceState, isLoading, isMicOn, isConnected, isUserSpeaking,
               isTranscribing, transcription, transcriptionUpdateTrigger>>
refVars == <<roomRef, sessionRef, audioTrackRef, transcriptionIdCounter>>
procVars == <<startPc, roomState, micPc, stopPc, stopRoom, togglePc, timers,
              audioEls>>
histVars == <<lastOp, attemptCount, delivered, clearCount, cancelled,
              evidence, windowLeft>>
callVars == <<endSessionCalls, disconnectCalls>>
vars == <<reactVars, refVars, procVars, histVars, rendered, callVars>>

\* runs no claim needs to tell apart leave Other
Op(op, res) == [op |-> op, res |-> res, out |-> <<>>]
Other == Op("other", "")

Init ==
  /\ inferenceState = "IDLE"
  /\ isLoading = FALSE
  /\ isMicOn = FALSE
  /\ isConnected = FALSE
  /\ isUserSpeaking = FALSE
  /\ isTranscribing = FALSE
  /\ transcription = <<>>
  /\ transcriptionUpdateTrigger = 0
  /\ roomRef = NULL
  /\ sessionRef = NULL
  /\ audioTrackRef = NULL
  /\ transcriptionIdCounter = 0
  /\ startPc = [a \in Attempts |-> "unused"]
  /\ roomState = [a \in Attempts |-> "none"]
  /\ micPc = [a \in Attempts |-> "none"]
  /\ stopPc = [i \in Stops |-> "idle"]
  /\ stopRoom = [i \in Stops |-> NULL]
  /\ togglePc = "none"
  /\ timers = <<>>
  /\ audioEls = [t \in TrackIds |-> [room |-> NULL, st |-> "none"]]
  /\ lastOp = Other
  /\ attemptCount = 0
  /\ delivered = <<>>
  /\ clearCount = 0
  /\ cancelled = {}
  /\ evidence = "none"
  /\ windowLeft = 0
  /\ rendered = [inferenceState |-> "IDLE", isMicOn |-> FALSE,
                 transcription |-> <<>>]
  /\ endSessionCalls = [a \in Attempts |-> 0]
  /\ disconnectCalls = [a \in Attempts |-> 0]

\* what a render of the present state gives the callbacks
Exposed ==
  [inferenceState |-> inferenceState, isMicOn |-> isMicOn,
   transcription |-> transcription]

\* no state update waits for a render.  React renders the updates of a task
\* before the next promise continuation, transport event or timer runs; only
\* further calls made by the same task find the callbacks of the old render.
Flushed == rendered = Exposed

\* React renders the component: the callbacks are created anew
render ==
  /\ ~Flushed
  /\ rendered' = Exposed
  /\ lastOp' = Other
  /\ UNCHANGED <<reactVars, refVars, procVars, attemptCount, delivered,
                 clearCount, cancelled, evidence, windowLeft, callVars>>

\* the values the state may take
TypeOK ==
  /\ inferenceState \in INFERENCE_STATES
  /\ {isLoading, isMicOn, isConnected, isUserSpeaking, isTranscribing} \subseteq BOOLEAN
  /\ transcriptionIdCounter \in Nat /\ transcriptionUpdateTrigger \in Nat
  /\ Len(transcription) <= transcriptionIdCounter
  /\ roomRef \in Attempts \cup {NULL} /\ sessionRef \in Attempts \cup {NULL}
  /\ audioTrackRef = NULL
  /\ startPc \in [Attempts -> {"unused", "getAgent", "createSession", "connect",
                                "done", "failed"}]
  /\ roomState \in [Attempts -> {"none", "connecting", "connected",
                                  "disconnected", "failed"}]
  /\ micPc \in [Attempts -> {"none", "pending", "enabled", "failed"}]
  /\ stopPc \in [Stops -> {"idle", "fetch", "disconnect"}]
  /\ stopRoom \in [Stops -> Attempts \cup {NULL}]
  /\ togglePc \in {"none", "enabling", "disabling"}
  /\ \A k \in 1..Len(timers) : timers[k].left \in 0..DebounceMs
  /\ rendered.inferenceState \in INFERENCE_STATES
  /\ rendered.isMicOn \in BOOLEAN
  /\ \A t \in TrackIds :
       audioEls[t].st \in {"none", "live", "detached", "removed"}

\* --------------------------------------------------------- startInference

\* targetAgentId || agentId (line 257): the empty string is falsy
EffectiveAgentId(targetAgentId, agentId) ==
  IF targetAgentId # "" THEN targetAgentId ELSE agentId

\* the state guard of line 264, negated: the call goes on.  The callback
\* reads the inferenceState of the render that created it (line 475).
StartAllowed(state) == state = "IDLE"

InFlight == {a \in Attempts : startPc[a] \in {"getAgent", "createSession", "connect"}}

\* lines 256-276: the call, up to the await of publicAgentAPI.getAgent
startInference(targetAgentId, agentId, maxAttempts) ==
  LET effectiveAgentId == EffectiveAgentId(targetAgentId, agentId)
      a == attemptCount + 1
  IN
  IF effectiveAgentId = ""
  THEN /\ lastOp' = Op("startInference", "noAgent")
       /\ UNCHANGED <<reactVars, refVars, procVars, attemptCount, delivered,
                      clearCount, cancelled, evidence, windowLeft, rendered,
                      callVars>>
  ELSE IF ~StartAllowed(rendered.inferenceState)
  THEN /\ lastOp' = Op("startInference", "notIdle")
       /\ UNCHANGED <<reactVars, refVars, procVars, attemptCount, delivered,
                      clearCount, cancelled, evidence, windowLeft, rendered,
                      callVars>>
  ELSE /\ attemptCount < maxAttempts
       /\ isLoading' = TRUE
       /\ inferenceState' = "CONNECTING"
       /\ startPc' = [startPc EXCEPT ![a] = "getAgent"]
       /\ attemptCount' = a
       /\ lastOp' = Op("startInference", "started")
       /\ UNCHANGED <<isMicOn, isConnected, isUserSpeaking, isTranscribing,
                      transcription, transcriptionUpdateTrigger, refVars,
                      roomState, micPc, stopPc, stopRoom, togglePc, timers,
                      audioEls, delivered, clearCount, cancelled, evidence,
                      windowLeft, rendered, callVars>>

\* a catch block that leaves the loading flag set
startCatchStillLoading(a) ==
  /\ inferenceState' = "ERROR"
  /\ startPc' = [startPc EXCEPT ![a] = "failed"]
  /\ lastOp' = Other
  /\ UNCHANGED <<isLoading, isMicOn, isConnected, isUserSpeaking,
                 isTranscribing, transcription, transcriptionUpdateTrigger,
                 refVars, micPc, stopPc, stopRoom, togglePc, timers, audioEls,
                 attemptCount, delivered, clearCount, cancelled, evidence,
                 windowLeft, rendered, callVars>>

\* lines 469-474: the catch block of startInference
startCatch(a) ==
  /\ inferenceState' = "ERROR"
  /\ isLoading' = FALSE
  /\ startPc' = [startPc EXCEPT ![a] = "failed"]
  /\ lastOp' = Other
  /\ UNCHANGED <<isMicOn, isConnected, isUserSpeaking, isTranscribing,
                 transcription, transcriptionUpdateTrigger, refVars, micPc,
                 stopPc, stopRoom, togglePc, timers, audioEls, attemptCount,
                 delivered, clearCount, cancelled, evidence, windowLeft,
                 rendered, callVars>>

\* lines 276-288: getAgent resolved; createLiveKitSession is called and awaited
getAgentResolved(a) ==
  /\ Flushed
  /\ startPc[a] = "getAgent"
  /\ startPc' = [startPc EXCEPT ![a] = "createSession"]
  /\ lastOp' = Other
  /\ UNCHANGED <<reactVars, refVars, roomState, micPc, stopPc, stopRoom,
                 togglePc, timers, audioEls, attemptCount, delivered,
                 clearCount, cancelled, evidence, windowLeft, rendered,
                 callVars>>

\* line 276 rejected: control passes to the catch block
getAgentRejected(a) ==
  /\ Flushed
  /\ startPc[a] = "getAgent"
  /\ startCatch(a)
  /\ UNCHANGED roomState

\* lines 289-467: the session descriptor arrived; it is stored, a Room is
\* created and stored, the listeners are registered and room.connect is
\* called and awaited.  The descriptor and the room of attempt a are named a.
createSessionResolved(a) ==
  /\ Flushed
  /\ startPc[a] = "createSession"
  /\ sessionRef' = a
  /\ roomRef' = a
  /\ roomState' = [roomState EXCEPT ![a] = "connecting"]
  /\ startPc' = [startPc EXCEPT ![a] = "connect"]
  /\ lastOp' = Other
  /\ UNCHANGED <<reactVars, audioTrackRef, transcriptionIdCounter, micPc,
                 stopPc, stopRoom, togglePc, timers, audioEls, attemptCount,
                 delivered, clearCount, cancelled, evidence, windowLeft,
                 rendered, callVars>>

\* lines 284/287 rejected: control passes to the catch block
createSessionRejected(a) ==
  /\ Flushed
  /\ startPc[a] = "createSession"
  /\ startCatch(a)
  /\ UNCHANGED roomState

\* line 467 resolved: startInference returns.  The transport resolves
\* connect once the room has connected (the room may be closed again by the
\* time the continuation runs).
connectResolved(a) ==
  /\ Flushed
  /\ startPc[a] = "connect"
  /\ roomState[a] \in {"connected", "disconnected"}
  /\ startPc' = [startPc EXCEPT ![a] = "done"]
  /\ lastOp' = Other
  /\ UNCHANGED <<reactVars, refVars, roomState, micPc, stopPc, stopRoom,
                 togglePc, timers, audioEls, attemptCount, delivered,
                 clearCount, cancelled, evidence, windowLeft, rendered,
                 callVars>>

\* line 467 rejected: the connection failed, or a disconnect() aborted it
connectRejected(a) ==
  /\ Flushed
  /\ startPc[a] = "connect"
  /\ roomState[a] \in {"connecting", "failed"}
  /\ roomState' = [roomState EXCEPT ![a] = "failed"]
  /\ startCatch(a)

\* ------------------------------------------------- transport event handlers

\* a pending reset is superseded by every later event that says the user speaks
Supersede(ts) == [k \in 1..Len(ts) |-> [ts[k] EXCEPT !.stale = TRUE]]

\* lines 297-305: RoomEvent.Connected, up to the await of setMicrophoneEnabled.
\* The transport emits Connected once, for a room that is connecting.
onConnected(a) ==
  /\ Flushed
  /\ roomState[a] = "connecting"
  /\ roomState' = [roomState EXCEPT ![a] = "connected"]
  /\ isConnected' = TRUE
  /\ inferenceState' = "ACTIVE"
  /\ isLoading' = FALSE
  /\ micPc' = [micPc EXCEPT ![a] = "pending"]
  /\ lastOp' = Other
  /\ UNCHANGED <<isMicOn, isUserSpeaking, isTranscribing, transcription,
                 transcriptionUpdateTrigger, refVars, startPc, stopPc,
                 stopRoom, togglePc, timers, audioEls, attemptCount,
                 delivered, clearCount, cancelled, evidence, windowLeft,
                 rendered, callVars>>

\* lines 306-335: setMicrophoneEnabled(true) resolved; the 'muted' listener
\* is registered on the published local audio track
micEnableResolved(a) ==
  /\ Flushed
  /\ micPc[a] = "pending"
  /\ isMicOn' = TRUE
  /\ micPc' = [micPc EXCEPT ![a] = "enabled"]
  /\ lastOp' = Other
  /\ UNCHANGED <<inferenceState, isLoading, isConnected, isUserSpeaking,
                 isTranscribing, transcription, transcriptionUpdateTrigger,
                 refVars, startPc, roomState, stopPc, stopRoom, togglePc,
                 timers, audioEls, attemptCount, delivered, clearCount,
                 cancelled, evidence, windowLeft, rendered, callVars>>

\* a catch block that treats the failure as the end of the session
micEnableRejectedFatal(a) ==
  /\ Flushed
  /\ micPc[a] = "pending"
  /\ micPc' = [micPc EXCEPT ![a] = "failed"]
  /\ inferenceState' = "ERROR"
  /\ lastOp' = Other
  /\ UNCHANGED <<isLoading, isMicOn, isConnected, isUserSpeaking,
                 isTranscribing, transcription, transcriptionUpdateTrigger,
                 refVars, startPc, roomState, stopPc, stopRoom, togglePc,
                 timers, audioEls, attemptCount, delivered, clearCount,
                 cancelled, evidence, windowLeft, rendered, callVars>>

\* lines 336-339: setMicrophoneEnabled(true) rejected; a toast, nothing else
micEnableRejected(a) ==
  /\ Flushed
  /\ micPc[a] = "pending"
  /\ micPc' = [micPc EXCEPT ![a] = "failed"]
  /\ lastOp' = Other
  /\ UNCHANGED <<reactVars, refVars, startPc, roomState, stopPc, stopRoom,
                 togglePc, timers, audioEls, attemptCount, delivered,
                 clearCount, cancelled, evidence, windowLeft, rendered,
                 callVars>>

\* lines 322-325: 'muted' of the local audio track
onLocalTrackMuted(a) ==
  /\ Flushed
  /\ micPc[a] = "enabled"
  /\ roomState[a] = "connected"
  /\ isUserSpeaking' = FALSE
  /\ evidence' = "false"
  /\ windowLeft' = 0
  /\ lastOp' = Other
  /\ UNCHANGED <<inferenceState, isLoading, isMicOn, isConnected,
                 isTranscribing, transcription, transcriptionUpdateTrigger,
                 refVars, procVars, attemptCount, delivered, clearCount,
                 cancelled, rendered, callVars>>

\* lines 342-348: RoomEvent.Disconnected, emitted for a connected room when
\* the connection is lost or closed
onDisconnected(a) ==
  /\ Flushed
  /\ roomState[a] = "connected"
  /\ roomState' = [roomState EXCEPT ![a] = "disconnected"]
  /\ isConnected' = FALSE
  /\ inferenceState' = "IDLE"
  /\ isMicOn' = FALSE
  /\ isUserSpeaking' = FALSE
  /\ evidence' = "false"
  /\ windowLeft' = 0
  /\ lastOp' = Other
  /\ UNCHANGED <<isLoading, isTranscribing, transcription,
                 transcriptionUpdateTrigger, refVars, startPc, micPc, stopPc,
                 stopRoom, togglePc, timers, audioEls, attemptCount,
                 delivered, clearCount, cancelled, rendered, callVars>>

\* lines 359-374: RoomEvent.ActiveSpeakersChanged; speakers is the set of
\* speaking participants, "local" standing for room.localParticipant
onActiveSpeakersChanged(a, speakers) ==
  LET userSpeaking == "local" \in speakers IN
  /\ Flushed
  /\ roomState[a] = "connected"
  /\ isUserSpeaking' = userSpeaking
  /\ evidence' = IF userSpeaking THEN "true" ELSE "false"
  /\ windowLeft' = 0
  /\ timers' = IF userSpeaking THEN Supersede(timers) ELSE timers
  /\ lastOp' = Other
  /\ UNCHANGED <<inferenceState, isLoading, isMicOn, isConnected,
                 isTranscribing, transcription, transcriptionUpdateTrigger,
                 refVars, startPc, roomState, micPc, stopPc, stopRoom,
                 togglePc, audioEls, attemptCount, delivered, clearCount,
                 cancelled, rendered, callVars>>

\* the test of lines 380 and 390
IsLocalAudio(participant, kind) == participant = "local" /\ kind = "audio"

\* lines 376-384: RoomEvent.TrackPublished
onTrackPublished(a, participant, kind) ==
  /\ Flushed
  /\ roomState[a] = "connected"
  /\ IF IsLocalAudio(participant, kind)
     THEN /\ isUserSpeaking' = TRUE
          /\ evidence' = "true"
          /\ windowLeft' = 0
          /\ timers' = Supersede(timers)
     ELSE UNCHANGED <<isUserSpeaking, evidence, windowLeft, timers>>
  /\ lastOp' = Other
  /\ UNCHANGED <<inferenceState, isLoading, isMicOn, isConnected,
                 isTranscribing, transcription, transcriptionUpdateTrigger,
                 refVars, startPc, roomState, micPc, stopPc, stopRoom,
                 togglePc, audioEls, attemptCount, delivered, clearCount,
                 cancelled, rendered, callVars>>

\* lines 386-394: RoomEvent.TrackUnpublished
onTrackUnpublished(a, participant, kind) ==
  /\ Flushed
  /\ roomState[a] = "connected"
  /\ IF IsLocalAudio(participant, kind)
     THEN /\ isUserSpeaking' = FALSE
          /\ evidence' = "false"
          /\ windowLeft' = 0
     ELSE UNCHANGED <<isUserSpeaking, evidence, windowLeft>>
  /\ lastOp' = Other
  /\ UNCHANGED <<inferenceState, isLoading, isMicOn, isConnected,
                 isTranscribing, transcription, transcriptionUpdateTrigger,
                 refVars, procVars, attemptCount, delivered, clearCount,
                 cancelled, rendered, callVars>>

FreeTracks == {t \in TrackIds : audioEls[t].st = "none"}

\* lines 396-416: RoomEvent.TrackSubscribed; track.attach() creates an <audio>
\* element whose srcObject holds the track, and it is appended to the body
onTrackSubscribed(a, kind) ==
  /\ Flushed
  /\ roomState[a] = "connected"
  /\ IF kind = "audio"
     THEN /\ FreeTracks # {}
          /\ LET t == CHOOSE x \in FreeTracks : \A y \in FreeTracks : x <= y IN
             audioEls' = [audioEls EXCEPT ![t] = [room |-> a, st |-> "live"]]
     ELSE UNCHANGED audioEls
  /\ lastOp' = Other
  /\ UNCHANGED <<reactVars, refVars, startPc, roomState, micPc, stopPc,
                 stopRoom, togglePc, timers, attemptCount, delivered,
                 clearCount, cancelled, evidence, windowLeft, rendered,
                 callVars>>

\* track.detach() (line 421): the track is taken out of the element's
\* MediaStream, which leaves srcObject null; the element stays in the document
Detach(el) == IF el.st = "live" THEN [el EXCEPT !.st = "detached"] ELSE el

\* lines 418-423: RoomEvent.TrackUnsubscribed of the audio track t of room a
onTrackUnsubscribed(a, t) ==
  /\ Flushed
  /\ roomState[a] = "connected"
  /\ audioEls[t].room = a
  /\ audioEls[t].st \in {"live", "removed"}
  /\ audioEls' = [audioEls EXCEPT ![t] = Detach(audioEls[t])]
  /\ lastOp' = Other
  /\ UNCHANGED <<reactVars, refVars, startPc, roomState, micPc, stopPc,
                 stopRoom, togglePc, timers, attemptCount, delivered,
                 clearCount, cancelled, evidence, windowLeft, rendered,
                 callVars>>

\* ------------------------------------------------------------ transcription

\* an id that does not depend on the counter
TranscriptionIdFixed(n) == <<"trans", 0>>

\* `trans_${transcriptionIdCounter.current++}` (line 442)
TranscriptionId(n) == <<"trans", n>>

\* lines 441-451; confidence, source, participantId and trackId are copied
\* from the event and read nowhere, and are left out
TranscriptionEntry(n, segment, isUser, date) ==
  [id |-> TranscriptionId(n),
   text |-> segment.text,
   speaker |-> IF isUser THEN "user" ELSE "agent",
   timestamp |-> date,
   isFinal |-> segment.final]

\* an updater that puts the new entry first
PrependEntry(prev, entry) == <<entry>> \o prev

\* setTranscription(prev => [...prev, transcriptionEntry]) (line 453)
AppendEntry(prev, entry) == Append(prev, entry)

\* the forEach of line 429 over the transcript: entries k..Len(segments)
RECURSIVE AppendSegments(_, _, _, _, _, _)
AppendSegments(prev, n, segments, k, isUser, date) ==
  IF k > Len(segments) THEN prev
  ELSE AppendSegments(
         AppendEntry(prev, TranscriptionEntry(n, segments[k], isUser, date)),
         n + 1, segments, k + 1, isUser, date)

\* a test that schedules no reset
SchedulesResetNever(segment, isUser) == FALSE

\* a test that looks at the segment only
SchedulesResetAnyFinal(segment, isUser) == segment.final

\* the test of line 457
SchedulesReset(segment, isUser) == segment.final /\ isUser

\* the forEach of line 429 over the timers: a user segment says the user
\* speaks, a final user segment calls setTimeout (lines 457-462)
RECURSIVE ScheduleResets(_, _, _, _)
ScheduleResets(ts, segments, k, isUser) ==
  IF k > Len(segments) THEN ts
  ELSE LET seen == IF isUser THEN Supersede(ts) ELSE ts IN
       ScheduleResets(
         IF SchedulesReset(segments[k], isUser)
         THEN Append(seen, [left |-> DebounceMs, stale |-> FALSE])
         ELSE seen,
         segments, k + 1, isUser)

\* a counter that counts the events, not their segments
CountEvent(trigger, n) == trigger + 1

\* setTranscriptionUpdateTrigger(prev => prev + 1) (line 454), run once for
\* each of the n segments of an event
CountSegments(trigger, n) == trigger + n

\* lines 426-464: RoomEvent.TranscriptionReceived
onTranscriptionReceived(a, segments, participant, date, maxEntries) ==
  LET isUser == participant = "local"
      n == Len(segments)
  IN
  /\ Flushed
  /\ roomState[a] = "connected"
  /\ transcriptionIdCounter + n <= maxEntries
  /\ IF isUser
     THEN /\ isUserSpeaking' = TRUE
          /\ isTranscribing' = TRUE
          /\ evidence' = IF segments[n].final THEN "final" ELSE "true"
          /\ windowLeft' = IF segments[n].final THEN DebounceMs ELSE 0
     ELSE UNCHANGED <<isUserSpeaking, isTranscribing, evidence, windowLeft>>
  /\ transcription' =
       AppendSegments(transcription, transcriptionIdCounter, segments, 1,
                      isUser, date)
  /\ transcriptionIdCounter' = transcriptionIdCounter + n
  /\ transcriptionUpdateTrigger' = CountSegments(transcriptionUpdateTrigger, n)
  /\ timers' = ScheduleResets(timers, segments, 1, isUser)
  /\ delivered' = delivered \o segments
  /\ lastOp' = Other
  /\ UNCHANGED <<inferenceState, isLoading, isMicOn, isConnected, roomRef,
                 sessionRef, audioTrackRef, startPc, roomState, micPc, stopPc,
                 stopRoom, togglePc, audioEls, attemptCount, clearCount,
                 cancelled, rendered, callVars>>

\* lines 458-461: the callback of setTimeout.  Timers are all set for the
\* same delay, so they fire in the order they were set.
debounceTimerFired ==
  /\ Flushed
  /\ timers # <<>>
  /\ Head(timers).left = 0
  /\ isUserSpeaking' = FALSE
  /\ isTranscribing' = FALSE
  /\ timers' = Tail(timers)
  /\ lastOp' = Other
  /\ UNCHANGED <<inferenceState, isLoading, isMicOn, isConnected,
                 transcription, transcriptionUpdateTrigger, refVars, startPc,
                 roomState, micPc, stopPc, stopRoom, togglePc, audioEls,
                 attemptCount, delivered, clearCount, cancelled, evidence,
                 windowLeft, rendered, callVars>>

Elapse(left) == IF left > TickMs THEN left - TickMs ELSE 0

\* TickMs milliseconds pass; a timer that is due fires before time goes on
Tick ==
  /\ Flushed
  /\ timers # <<>> \/ windowLeft > 0
  /\ \A k \in 1..Len(timers) : timers[k].left > 0
  /\ timers' = [k \in 1..Len(timers) |->
                  [timers[k] EXCEPT !.left = Elapse(timers[k].left)]]
  /\ windowLeft' = Elapse(windowLeft)
  /\ lastOp' = Other
  /\ UNCHANGED <<reactVars, refVars, startPc, roomState, micPc, stopPc,
                 stopRoom, togglePc, audioEls, attemptCount, delivered,
                 clearCount, cancelled, evidence, rendered, callVars>>

\* ----------------------------------------------------------- stopInference

\* one more call, counted up to maxCalls
CountCall(n, maxCalls) == IF n < maxCalls THEN n + 1 ELSE n

\* lines 510-514: every <audio> element whose srcObject is set is removed
RemoveAudio(el) == IF el.st = "live" THEN [el EXCEPT !.st = "removed"] ELSE el

\* lines 506-523: the end of stopInference
stopFinal(i, op) ==
  /\ roomRef' = NULL
  /\ audioEls' = [t \in TrackIds |-> RemoveAudio(audioEls[t])]
  /\ sessionRef' = NULL
  /\ isConnected' = FALSE
  /\ inferenceState' = "IDLE"
  /\ isMicOn' = FALSE
  /\ isUserSpeaking' = FALSE
  /\ isLoading' = FALSE
  /\ stopPc' = [stopPc EXCEPT ![i] = "idle"]
  /\ stopRoom' = [stopRoom EXCEPT ![i] = NULL]
  /\ evidence' = "false"
  /\ windowLeft' = 0
  /\ lastOp' = Op(op, "completed")
  /\ UNCHANGED <<isTranscribing, transcription, transcriptionUpdateTrigger,
                 transcriptionIdCounter, startPc, roomState, micPc, togglePc,
                 timers, attemptCount, delivered, clearCount, rendered,
                 callVars>>

\* room.disconnect() on a room that is still connecting aborts the connection
Aborted(st) == IF st = "connecting" THEN "failed" ELSE st

\* lines 498-505: after the backend call.  audioTrackRef is assigned nowhere
\* in the hook, so the branch of lines 499-502 only ever finds null.
stopCleanup(i, op, maxCalls) ==
  /\ audioTrackRef' = NULL
  /\ IF roomRef # NULL
     THEN /\ stopPc' = [stopPc EXCEPT ![i] = "disconnect"]
          /\ stopRoom' = [stopRoom EXCEPT ![i] = roomRef]
          /\ roomState' = [roomState EXCEPT ![roomRef] = Aborted(roomState[roomRef])]
          /\ disconnectCalls' =
               [disconnectCalls EXCEPT
                  ![roomRef] = CountCall(disconnectCalls[roomRef], maxCalls)]
          /\ lastOp' = Op(op, "pending")
          /\ UNCHANGED <<reactVars, roomRef, sessionRef,
                         transcriptionIdCounter, startPc, micPc, togglePc,
                         timers, audioEls, attemptCount, delivered,
                         clearCount, evidence, windowLeft, rendered,
                         endSessionCalls>>
     ELSE stopFinal(i, op)

FreeStops(maxStops) == {i \in 1..maxStops : stopPc[i] = "idle"}

\* the test of line 481
HasSession(ref) == ref # NULL

\* a stopInference that goes to the local cleanup without the backend call
stopInferenceLocalOnly(maxStops, maxCalls) ==
  /\ FreeStops(maxStops) # {}
  /\ LET i == CHOOSE x \in FreeStops(maxStops) :
                 \A y \in FreeStops(maxStops) : x <= y IN
     /\ cancelled' = cancelled \cup InFlight
     /\ stopCleanup(i, "stopInference", maxCalls)

\* lines 478-493: the call, up to the await of the session-end fetch.  The
\* cleanup of the unmount effect (lines 582-586) is such a call too.
stopInference(maxStops, maxCalls) ==
  /\ FreeStops(maxStops) # {}
  /\ LET i == CHOOSE x \in FreeStops(maxStops) :
                 \A y \in FreeStops(maxStops) : x <= y IN
     /\ cancelled' = cancelled \cup InFlight
     /\ IF HasSession(sessionRef)
        THEN /\ stopPc' = [stopPc EXCEPT ![i] = "fetch"]
             /\ endSessionCalls' =
                  [endSessionCalls EXCEPT
                     ![sessionRef] =
                        CountCall(endSessionCalls[sessionRef], maxCalls)]
             /\ lastOp' = Op("stopInference", "pending")
             /\ UNCHANGED <<reactVars, refVars, startPc, roomState, micPc,
                            stopRoom, togglePc, timers, audioEls,
                            attemptCount, delivered, clearCount, evidence,
                            windowLeft, rendered, disconnectCalls>>
        ELSE stopCleanup(i, "stopInference", maxCalls)

\* line 483 resolved
endSessionResolved(i, maxCalls) ==
  /\ Flushed
  /\ stopPc[i] = "fetch"
  /\ stopCleanup(i, "stopResumed", maxCalls)
  /\ UNCHANGED cancelled

\* line 483 rejected: lines 494-496 log the error and the run goes on
endSessionRejected(i, maxCalls) ==
  /\ Flushed
  /\ stopPc[i] = "fetch"
  /\ stopCleanup(i, "stopResumed", maxCalls)
  /\ UNCHANGED cancelled

\* line 505 resolved.  disconnect() of a connected room emits Disconnected
\* before it resolves.
disconnectResolved(i) ==
  /\ Flushed
  /\ stopPc[i] = "disconnect"
  /\ roomState[stopRoom[i]] # "connected"
  /\ audioTrackRef' = audioTrackRef
  /\ stopFinal(i, "stopResumed")
  /\ UNCHANGED cancelled

\* line 505 rejected: nothing catches it, stopInference rejects
disconnectRejected(i) ==
  /\ Flushed
  /\ stopPc[i] = "disconnect"
  /\ stopPc' = [stopPc EXCEPT ![i] = "idle"]
  /\ stopRoom' = [stopRoom EXCEPT ![i] = NULL]
  /\ lastOp' = Op("stopResumed", "threw")
  /\ UNCHANGED <<reactVars, refVars, startPc, roomState, micPc, togglePc,
                 timers, audioEls, attemptCount, delivered, clearCount,
                 cancelled, evidence, windowLeft, rendered, callVars>>

\* --------------------------------------------------------------- toggleMic

\* lines 527-540: the call, up to the await of setMicrophoneEnabled.  One
\* toggle is in flight at a time.
toggleMic ==
  IF roomRef = NULL
  THEN /\ lastOp' = Op("toggleMic", "noSession")
       /\ UNCHANGED <<reactVars, refVars, procVars, attemptCount, delivered,
                      clearCount, cancelled, evidence, windowLeft, rendered,
                      callVars>>
  ELSE /\ togglePc = "none"
       /\ togglePc' = IF rendered.isMicOn THEN "disabling" ELSE "enabling"
       /\ lastOp' = Op("toggleMic", "pending")
       /\ UNCHANGED <<reactVars, refVars, startPc, roomState, micPc, stopPc,
                      stopRoom, timers, audioEls, attemptCount, delivered,
                      clearCount, cancelled, evidence, windowLeft, rendered,
                      callVars>>

\* lines 536 and 540: setMicrophoneEnabled resolved
toggleResolved ==
  /\ Flushed
  /\ togglePc # "none"
  /\ isMicOn' = (togglePc = "enabling")
  /\ togglePc' = "none"
  /\ lastOp' = Other
  /\ UNCHANGED <<inferenceState, isLoading, isConnected, isUserSpeaking,
                 isTranscribing, transcription, transcriptionUpdateTrigger,
                 refVars, startPc, roomState, micPc, stopPc, stopRoom, timers,
                 audioEls, attemptCount, delivered, clearCount, cancelled,
                 evidence, windowLeft, rendered, callVars>>

\* a catch block that gives the session up
toggleRejectedFatal ==
  /\ Flushed
  /\ togglePc # "none"
  /\ togglePc' = "none"
  /\ inferenceState' = "ERROR"
  /\ lastOp' = Other
  /\ UNCHANGED <<isLoading, isMicOn, isConnected, isUserSpeaking,
                 isTranscribing, transcription, transcriptionUpdateTrigger,
                 refVars, startPc, roomState, micPc, stopPc, stopRoom, timers,
                 audioEls, attemptCount, delivered, clearCount, cancelled,
                 evidence, windowLeft, rendered, callVars>>

\* lines 543-546: setMicrophoneEnabled rejected; a toast, nothing else
toggleRejected ==
  /\ Flushed
  /\ togglePc # "none"
  /\ togglePc' = "none"
  /\ lastOp' = Other
  /\ UNCHANGED <<reactVars, refVars, startPc, roomState, micPc, stopPc,
                 stopRoom, timers, audioEls, attemptCount, delivered,
                 clearCount, cancelled, evidence, windowLeft, rendered,
                 callVars>>

\* ------------------------------------------------------- the transcript API

\* Date.prototype.toLocaleTimeString: hours, minutes, seconds of the day
toLocaleTimeString(date) ==
  <<date \div 3600, (date % 3600) \div 60, date % 60>>

\* a filter that lets every entry through
ExportEverything(entry) == TRUE

\* the filter of line 553
ExportFilter(entry) == entry.isFinal

\* line 554: `[${time}] ${speaker}: ${text}`
FormatEntry(entry) ==
  <<toLocaleTimeString(entry.timestamp), entry.speaker, entry.text>>

\* lines 552-555: the lines of transcriptionText, which join('\n') glues
RECURSIVE TranscriptionText(_)
TranscriptionText(entries) ==
  IF entries = <<>> THEN <<>>
  ELSE IF ExportFilter(Head(entries))
       THEN <<FormatEntry(Head(entries))>> \o TranscriptionText(Tail(entries))
       ELSE TranscriptionText(Tail(entries))

\* lines 550-567: saveTranscription; the text goes into the downloaded blob
saveTranscription ==
  /\ lastOp' = [Op("saveTranscription", "") EXCEPT
                  !.out = TranscriptionText(rendered.transcription)]
  /\ UNCHANGED <<reactVars, refVars, procVars, attemptCount, delivered,
                 clearCount, cancelled, evidence, windowLeft, rendered,
                 callVars>>

\* a clearTranscription that sets the change counter back to its first value
clearTranscriptionResetting(maxClears) ==
  /\ clearCount < maxClears
  /\ transcription' = <<>>
  /\ transcriptionUpdateTrigger' = 0
  /\ clearCount' = clearCount + 1
  /\ delivered' = <<>>
  /\ lastOp' = Other
  /\ UNCHANGED <<inferenceState, isLoading, isMicOn, isConnected,
                 isUserSpeaking, isTranscribing, refVars, procVars,
                 attemptCount, cancelled, evidence, windowLeft, rendered,
                 callVars>>

\* lines 575-579: clearTranscription
clearTranscription(maxClears) ==
  /\ clearCount < maxClears
  /\ transcription' = <<>>
  /\ transcriptionUpdateTrigger' = transcriptionUpdateTrigger + 1
  /\ clearCount' = clearCount + 1
  /\ delivered' = <<>>
  /\ lastOp' = Other
  /\ UNCHANGED <<inferenceState, isLoading, isMicOn, isConnected,
                 isUserSpeaking, isTranscribing, refVars, procVars,
                 attemptCount, cancelled, evidence, windowLeft, rendered,
                 callVars>>

\* ------------------------------------------------------------ specification

\* startInference and its continuations
StartSteps(maxAttempts) ==
  \/ \E t \in AgentIds, c \in AgentIds : startInference(t, c, maxAttempts)
  \/ \E a \in Attempts : getAgentResolved(a)
  \/ \E a \in Attempts : getAgentRejected(a)
  \/ \E a \in Attempts : createSessionResolved(a)
  \/ \E a \in Attempts : createSessionRejected(a)
  \/ \E a \in Attempts : connectResolved(a)
  \/ \E a \in Attempts : connectRejected(a)

\* the connection events of the transport
ConnectionSteps ==
  \/ \E a \in Attempts : onConnected(a)
  \/ \E a \in Attempts : onDisconnected(a)

\* the end of the setMicrophoneEnabled call of the Connected handler
MicSteps ==
  \/ \E a \in Attempts : micEnableResolved(a)
  \/ \E a \in Attempts : micEnableRejected(a)

\* stopInference and its continuations; the calls they make are counted up
\* to maxCalls
StopSteps(maxStops, maxCalls) ==
  \/ stopInference(maxStops, maxCalls)
  \/ \E i \in Stops : endSessionResolved(i, maxCalls)
  \/ \E i \in Stops : endSessionRejected(i, maxCalls)
  \/ \E i \in Stops : disconnectResolved(i)
  \/ \E i \in Stops : disconnectRejected(i)

\* the events that say whether the user speaks
SpeakingSteps ==
  \/ \E a \in Attempts : onLocalTrackMuted(a)
  \/ \E a \in Attempts, sp \in SUBSET {"local", "remote"} :
       onActiveSpeakersChanged(a, sp)
  \/ \E a \in Attempts, p \in Participants \ {"none"}, k \in Kinds :
       onTrackPublished(a, p, k)
  \/ \E a \in Attempts, p \in Participants \ {"none"}, k \in Kinds :
       onTrackUnpublished(a, p, k)

\* remote tracks
TrackSteps ==
  \/ \E a \in Attempts, k \in Kinds : onTrackSubscribed(a, k)
  \/ \E a \in Attempts, t \in TrackIds : onTrackUnsubscribed(a, t)

\* transcription segments and the debounced reset
SegmentSteps(texts, maxEntries) ==
  \/ \E a \in Attempts, segs \in SegmentLists(texts), p \in Participants,
        d \in Dates :
       onTranscriptionReceived(a, segs, p, d, maxEntries)
  \/ debounceTimerFired
  \/ Tick

\* the transcript API
TranscriptSteps(maxClears) ==
  \/ saveTranscription
  \/ clearTranscription(maxClears)

ToggleSteps ==
  \/ toggleMic
  \/ toggleResolved
  \/ toggleRejected

\* the whole hook
Next ==
  \/ render
  \/ StartSteps(MaxAttempts)
  \/ ConnectionSteps
  \/ MicSteps
  \/ StopSteps(MaxStops, MaxCalls)
  \/ SpeakingSteps
  \/ TrackSteps
  \/ SegmentSteps(Texts, MaxEntries)
  \/ TranscriptSteps(MaxClears)
  \/ ToggleSteps

Spec == Init /\ [][Next]_vars

\* two start attempts, against stopInference and the connection events; the
\* microphone enabling of a connected room stays pending
NextRestart ==
  \/ render
  \/ StartSteps(MaxAttempts)
  \/ ConnectionSteps
  \/ StopSteps(1, 0)

SpecRestart == Init /\ [][NextRestart]_vars

\* one session with everything that acquires and releases resources
NextSession ==
  \/ render
  \/ StartSteps(1)
  \/ ConnectionSteps
  \/ MicSteps
  \/ StopSteps(MaxStops, MaxCalls)
  \/ SpeakingSteps
  \/ TrackSteps
  \/ ToggleSteps

SpecSession == Init /\ [][NextSession]_vars

\* one session and its transcript; the microphone enabling stays pending
NextTranscript ==
  \/ render
  \/ StartSteps(1)
  \/ ConnectionSteps
  \/ StopSteps(1, 0)
  \/ SegmentSteps(Texts, MaxEntries)
  \/ TranscriptSteps(MaxClears)

SpecTranscript == Init /\ [][NextTranscript]_vars

\* one session and the signals that say whether the user speaks
NextSpeaking ==
  \/ render
  \/ StartSteps(1)
  \/ ConnectionSteps
  \/ MicSteps
  \/ StopSteps(1, 0)
  \/ SpeakingSteps
  \/ SegmentSteps(Texts, MaxSpoken)

SpecSpeaking == Init /\ [][NextSpeaking]_vars

\* ------------------------------------------------------------------ claims

StopOps == {"stopInference", "stopResumed"}
IsPrefix(p, q) == Len(p) <= Len(q) /\ \A k \in 1..Len(p) : q[k] = p[k]

\* attempt a goes on after an await, or its room reports Connected
Resumed(a) ==
  \/ startPc[a] # "unused" /\ startPc'[a] # startPc[a]
  \/ roomState[a] = "connecting" /\ roomState'[a] = "connected"

\* C1: a provisioning call (getAgent, createLiveKitSession) or a transport
\* connect call issued while the lifecycle state is CONNECTING or ACTIVE
\* belongs to the attempt that last moved the state from IDLE to CONNECTING.
C1_OneAttemptAtATime ==
  [][\A a \in Attempts :
       (/\ startPc'[a] # startPc[a]
        /\ startPc'[a] \in {"getAgent", "createSession", "connect"}
        /\ inferenceState' \in {"CONNECTING", "ACTIVE"})
       => a = attemptCount']_vars

\* C2: a stopInference run that reaches its end leaves the state IDLE, the
\* mic-on, connected, user-speaking and loading flags false, no session
\* descriptor, no room, and no <audio> element of a remote track in the
\* document.
C2_StopLeavesNothing ==
  (lastOp.op \in StopOps /\ lastOp.res = "completed")
  => /\ inferenceState = "IDLE"
     /\ ~isMicOn /\ ~isConnected /\ ~isUserSpeaking /\ ~isLoading
     /\ sessionRef = NULL /\ roomRef = NULL
     /\ \A t \in TrackIds : audioEls[t].st \notin {"live", "detached"}

\* C3: once stopInference was called while an attempt's provisioning or
\* connect call was in flight, what that attempt does afterwards (a call
\* resolving or rejecting, its room reporting Connected) changes neither the
\* lifecycle state nor the stored descriptor, nor the stored room, nor the
\* state of the attempt's connection.
C3_StaleAttemptIsNoop ==
  [][\A a \in cancelled :
       Resumed(a) => /\ inferenceState' = inferenceState
                     /\ sessionRef' = sessionRef
                     /\ roomRef' = roomRef
                     /\ roomState'[a] = roomState[a]]_vars

\* C4: a startInference call made while the lifecycle state the hook exposes
\* is not IDLE, or made right after a startInference call that started an
\* attempt, starts nothing: it changes neither the lifecycle state, nor the
\* loading flag, nor the descriptor, nor the room, nor the transcript, and
\* issues no call.  Of a sequence of calls only the first has effect.
C4_StartOutsideIdleIsNoop ==
  [][(/\ lastOp'.op = "startInference"
      /\ \/ rendered.inferenceState # "IDLE"
         \/ lastOp.op = "startInference" /\ lastOp.res = "started")
       => /\ lastOp'.res # "started"
          /\ UNCHANGED <<inferenceState, isLoading, sessionRef, roomRef,
                         transcription, startPc, roomState, attemptCount>>]_vars

\* C5: no stopInference run raises an error, and a stopInference call made
\* right after a run that reached its end reaches its end at once and leaves
\* the state, the refs and the document as the first run left them.
C5_StopTwiceAsOnce ==
  [][/\ lastOp'.op \in StopOps => lastOp'.res # "threw"
     /\ (lastOp.op \in StopOps /\ lastOp.res = "completed"
         /\ lastOp'.op = "stopInference")
        => /\ lastOp'.res = "completed"
           /\ UNCHANGED <<reactVars, refVars, audioEls>>]_vars

\* C6: the transcript holds one entry per segment delivered since the last
\* clearTranscription, in the order of delivery, and no step but
\* clearTranscription removes, changes or reorders an entry: the transcript
\* before a step is a prefix of the transcript after it.
C6_TranscriptAppendOnly ==
  [][/\ clearCount' = clearCount => IsPrefix(transcription, transcription')
     /\ Len(transcription') = Len(delivered')
     /\ \A k \in 1..Len(delivered') :
          /\ transcription'[k].text = delivered'[k].text
          /\ transcription'[k].isFinal = delivered'[k].final]_vars

C6_Witness ==
  /\ Len(transcription) = 2
  /\ transcription[1].isFinal /\ ~transcription[2].isFinal
  /\ inferenceState = "IDLE"
  /\ lastOp.op \in StopOps /\ lastOp.res = "completed"

\* the final entries of the transcript the hook exposes
FinalIndexes ==
  {k \in 1..Len(rendered.transcription) : rendered.transcription[k].isFinal}

\* C7: the text saved by saveTranscription has one line per final entry of
\* the transcript the hook exposes, in the order of the transcript, each giving the time of
\* day, the speaker and the text of its entry, and no line for an entry that
\* is not final; saveTranscription changes neither the transcript nor the
\* lifecycle state.
C7_ExportFinalEntriesInOrder ==
  [][lastOp'.op = "saveTranscription"
       => /\ UNCHANGED <<transcription, inferenceState>>
          /\ Len(lastOp'.out) = Cardinality(FinalIndexes)
          /\ \E f \in [1..Len(lastOp'.out) -> FinalIndexes] :
               /\ \A i, j \in 1..Len(lastOp'.out) : i < j => f[i] < f[j]
               /\ \A i \in 1..Len(lastOp'.out) :
                    LET line == lastOp'.out[i]
                        entry == rendered.transcription[f[i]]
                    IN /\ line[1][1] * 3600 + line[1][2] * 60 + line[1][3]
                            = entry.timestamp
                       /\ line[1][2] < 60 /\ line[1][3] < 60
                       /\ line[2] = entry.speaker
                       /\ line[3] = entry.text]_vars

C7_Witness ==
  /\ lastOp.op = "saveTranscription"
  /\ rendered.transcription = transcription
  /\ Len(transcription) = 2
  /\ transcription[1].isFinal /\ transcription[1].speaker = "user"
  /\ ~transcription[2].isFinal /\ transcription[2].speaker = "agent"
  /\ lastOp.out = << << <<10, 0, 0>>, "user", "hi" >> >>

TimerDue == \E k \in 1..Len(timers) : timers[k].left = 0

\* C8: except at the instant a reset is due and has not run yet,
\* isUserSpeaking is true exactly when the last speaking-evidence event said
\* the user speaks, or the last one was a final user segment whose 500 ms
\* window has not elapsed.  (The end of a session, by stopInference or
\* Disconnected, counts as evidence that the user does not speak.)
C8_SpeakingIffEvidence ==
  ~TimerDue =>
    (isUserSpeaking <=>
       (evidence = "true" \/ (evidence = "final" /\ windowLeft > 0)))

\* C9: a reset that was superseded (an event saying that the user speaks was
\* processed after the reset was scheduled) does not clear isUserSpeaking or
\* isTranscribing when its time comes.
C9_SupersededResetDoesNothing ==
  [][(/\ timers # <<>>
      /\ Len(timers') < Len(timers)
      /\ Head(timers).stale)
       => /\ isUserSpeaking' = isUserSpeaking
          /\ isTranscribing' = isTranscribing]_vars

\* C10: when getAgent or createLiveKitSession of an attempt rejects, the
\* lifecycle state becomes ERROR and the loading flag false, no room is
\* created or stored for the attempt, and the attempt never goes on to
\* connect.
C10_ProvisioningFailure ==
  [][\A a \in Attempts :
       /\ (startPc[a] \in {"getAgent", "createSession"} /\ startPc'[a] = "failed")
          => /\ inferenceState' = "ERROR"
             /\ isLoading' = FALSE
             /\ roomState'[a] = "none"
             /\ roomRef' = roomRef /\ roomRef' # a
       /\ startPc[a] = "failed"
          => startPc'[a] = "failed" /\ roomState'[a] = roomState[a]]_vars

C10_Witness ==
  \E a \in Attempts :
    /\ startPc[a] = "failed"
    /\ roomState[a] = "none"
    /\ inferenceState = "ERROR"
    /\ ~isLoading

\* C11: a suspended stopInference run ends by reaching its end, whichever of
\* its cleanup steps failed: it raises nothing to the caller, and it leaves
\* the state IDLE, the flags false, and the descriptor and the room released.
C11_CleanupFailureAbsorbed ==
  [][\A i \in Stops :
       (stopPc[i] # "idle" /\ stopPc'[i] = "idle")
       => /\ lastOp'.res = "completed"
          /\ inferenceState' = "IDLE"
          /\ ~isMicOn' /\ ~isConnected' /\ ~isUserSpeaking' /\ ~isLoading'
          /\ sessionRef' = NULL /\ roomRef' = NULL]_vars

\* C12: for every session descriptor the session-end request is sent at most
\* once, and for every room disconnect() is called at most once, however the
\* stopInference calls (explicit, or made by the unmount cleanup) interleave.
C12_ReleasedOnce ==
  \A a \in Attempts : endSessionCalls[a] <= 1 /\ disconnectCalls[a] <= 1

\* C13: while no stopInference run is under way, a session descriptor is held
\* in sessionRef exactly when the lifecycle state is not IDLE.
C13_DescriptorIffNotIdle ==
  (\A i \in Stops : stopPc[i] = "idle")
  => (sessionRef # NULL <=> inferenceState # "IDLE")

\* two start attempts against stopInference, the connection events and the
\* remote tracks, the release calls being counted
NextCleanup ==
  \/ render
  \/ StartSteps(MaxAttempts)
  \/ ConnectionSteps
  \/ StopSteps(1, MaxCalls)
  \/ TrackSteps

SpecCleanup == Init /\ [][NextCleanup]_vars

\* C14: every step that brings the lifecycle state to IDLE has run the
\* cleanup: the session-end request was sent for the descriptor held, the
\* descriptor and the room are released and no <audio> element with a remote
\* track is left in the document; and no step stores a descriptor over one
\* for which no session-end request was sent.
C14_IdleMeansCleanedUp ==
  [][/\ (inferenceState # "IDLE" /\ inferenceState' = "IDLE")
        => /\ sessionRef # NULL => endSessionCalls'[sessionRef] >= 1
           /\ sessionRef' = NULL /\ roomRef' = NULL
           /\ \A t \in TrackIds : audioEls'[t].st # "live"
     /\ (sessionRef # NULL /\ sessionRef' \notin {NULL, sessionRef})
        => endSessionCalls[sessionRef] >= 1]_vars

\* the number in the id of an entry
IdNumber(entry) == entry.id[2]

\* C15: the ids of the transcript increase strictly in the order of the
\* entries, and an entry that a step appends gets a number that no earlier
\* entry of the hook had, cleared ones included: transcriptionIdCounter never
\* decreases, every id handed out lies below it, and a new id does not.
C15_IdsUniqueIncreasing ==
  [][/\ \A j, k \in 1..Len(transcription') :
          j < k => IdNumber(transcription'[j]) < IdNumber(transcription'[k])
     /\ \A k \in 1..Len(transcription') :
          /\ IdNumber(transcription'[k]) < transcriptionIdCounter'
          /\ (\A j \in 1..Len(transcription) :
                transcription[j] # transcription'[k])
             => IdNumber(transcription'[k]) >= transcriptionIdCounter
     /\ transcriptionIdCounter' >= transcriptionIdCounter]_vars

\* an entry appended after clearTranscription, numbered on from the cleared
\* one; the session has ended since
C15_Witness ==
  /\ clearCount = 1
  /\ Len(transcription) = 1
  /\ IdNumber(transcription[1]) = 1
  /\ inferenceState = "IDLE"

\* the lifecycle state and the session flags
sessionFlags ==
  <<inferenceState, isLoading, isMicOn, isConnected, isUserSpeaking,
    isTranscribing>>

\* C16 as stated: clearTranscription empties the transcript and sets the
\* change counter back to its first value, 0, and leaves the lifecycle state
\* and the session flags as they were.
C16_ClearResetsCounter ==
  [][clearCount' # clearCount
       => /\ transcription' = <<>>
          /\ transcriptionUpdateTrigger' = 0
          /\ UNCHANGED sessionFlags]_vars

\* C16, amended: clearTranscription can be called in every state; it empties
\* the transcript, adds one to the change counter, and leaves the lifecycle
\* state, the session flags and the refs as they were.
C16_ClearEmptiesAndCounts ==
  /\ [](clearCount < MaxClears => ENABLED clearTranscription(MaxClears))
  /\ [][clearCount' # clearCount
          => /\ transcription' = <<>>
             /\ transcriptionUpdateTrigger' = transcriptionUpdateTrigger + 1
             /\ UNCHANGED <<sessionFlags, refVars>>]_vars

\* the transcript of an ACTIVE session cleared after one entry
C16_Witness ==
  /\ clearCount = 1
  /\ transcription = <<>>
  /\ transcriptionIdCounter = 1
  /\ transcriptionUpdateTrigger = 2
  /\ inferenceState = "ACTIVE"

\* C17: no step decreases the change counter, and a step that appends
\* segments to the transcript adds one to the counter for each of them.
C17_CounterMonotonic ==
  [][/\ transcriptionUpdateTrigger' >= transcriptionUpdateTrigger
     /\ clearCount' = clearCount
        => transcriptionUpdateTrigger' - transcriptionUpdateTrigger
             = Len(transcription') - Len(transcription)]_vars

\* two segments delivered, then clearTranscription, and the end of the
\* session by stopInference
C17_Witness ==
  /\ transcriptionIdCounter = 2
  /\ clearCount = 1
  /\ transcription = <<>>
  /\ transcriptionUpdateTrigger = 3
  /\ lastOp.op \in StopOps /\ lastOp.res = "completed"

\* SpecSpeaking with the scheduling of the browser: React renders a pending
\* update, time goes on, and a timer that is due runs its callback
SpecSpeakingFair ==
  /\ SpecSpeaking
  /\ WF_vars(render)
  /\ WF_vars(Tick)
  /\ WF_vars(debounceTimerFired)

\* C18: when the last speaking-evidence event is a final user segment, then
\* unless new evidence arrives isUserSpeaking and isTranscribing are both
\* false at some later time; and as long as no new evidence arrives (the last
\* evidence stays that segment and no segment is received) no step sets
\* either flag to true.
C18_ResetFiresAndHolds ==
  /\ [](evidence = "final"
          => <>(evidence # "final" \/ (~isUserSpeaking /\ ~isTranscribing)))
  /\ [][(/\ evidence = "final" /\ evidence' = "final"
         /\ transcriptionIdCounter' = transcriptionIdCounter)
          => /\ isUserSpeaking' => isUserSpeaking
             /\ isTranscribing' => isTranscribing]_vars

\* the reset of a final user segment has run: 500 ms have passed, no timer
\* is left and both flags are false
C18_Witness ==
  /\ evidence = "final"
  /\ windowLeft = 0
  /\ timers = <<>>
  /\ ~isUserSpeaking /\ ~isTranscribing
  /\ inferenceState = "ACTIVE"

\* C19: when the room of the attempt reports Connected, the lifecycle state
\* becomes ACTIVE, the connected flag true and the loading flag false, and
\* setMicrophoneEnabled(true) is called; when that call fails, the lifecycle
\* state, the mic-on flag and the connected flag stay as they were, and the
\* room, the descriptor and the refs are left alone: nothing is torn down.
C19_ConnectedThenMic ==
  [][\A a \in Attempts :
       /\ (roomState[a] = "connecting" /\ roomState'[a] = "connected")
          => /\ inferenceState' = "ACTIVE"
             /\ isConnected' /\ ~isLoading'
             /\ micPc[a] = "none" /\ micPc'[a] = "pending"
       /\ (micPc[a] = "pending" /\ micPc'[a] = "failed")
          => /\ UNCHANGED <<inferenceState, isMicOn, isConnected, isLoading>>
             /\ UNCHANGED <<roomRef, sessionRef, roomState, disconnectCalls,
                            endSessionCalls, stopPc>>]_vars

\* the microphone could not be enabled: the session is ACTIVE and connected,
\* with the mic-on flag false
C19_Witness ==
  \E a \in Attempts :
    /\ micPc[a] = "failed"
    /\ roomState[a] = "connected"
    /\ roomRef = a
    /\ inferenceState = "ACTIVE"
    /\ isConnected /\ ~isMicOn /\ ~isLoading

\* C20: a stopInference call sends the session-end request exactly when a
\* descriptor is held, and that step releases nothing; a run calls
\* room.disconnect() only after its request has settled, or when it found no
\* descriptor; and a descriptor is cleared only after a session-end request
\* was sent for it.
C20_EndSessionFirst ==
  [][/\ lastOp'.op = "stopInference"
        => /\ (\E i \in Stops : stopPc[i] = "idle" /\ stopPc'[i] = "fetch")
                <=> sessionRef # NULL
           /\ sessionRef # NULL
                => UNCHANGED <<sessionRef, roomRef, roomState, audioEls,
                               disconnectCalls>>
     /\ \A i \in Stops :
          (stopPc[i] # "disconnect" /\ stopPc'[i] = "disconnect")
          => stopPc[i] = "fetch" \/ sessionRef = NULL
     /\ (sessionRef # NULL /\ sessionRef' = NULL)
          => endSessionCalls[sessionRef] >= 1]_vars

\* a run that has sent the session-end request, saw it settle, and now waits
\* for room.disconnect()
C20_Witness ==
  \E i \in Stops :
    /\ stopPc[i] = "disconnect"
    /\ sessionRef # NULL
    /\ stopRoom[i] = sessionRef
    /\ endSessionCalls[sessionRef] = 1
    /\ disconnectCalls[sessionRef] = 1

\* C21: the lifecycle state leaves ERROR only at the end of a stopInference
\* run, and only for IDLE; a startInference call made in ERROR starts nothing.
C21_ErrorUntilStop ==
  [][inferenceState = "ERROR"
       => /\ inferenceState' # "ERROR"
               => lastOp'.op \in StopOps /\ inferenceState' = "IDLE"
          /\ lastOp'.op = "startInference" => lastOp'.res # "started"]_vars

\* C22: a TranscriptionReceived event of a participant other than the local
\* one, or of no participant, appends one entry per segment with speaker
\* "agent", the text and the finality of the segment, leaves isUserSpeaking
\* and isTranscribing as they are and sets no timer, final segment or not.
\* (Only these events move the counter of ids.)
C22_AgentSegmentFrame ==
  [][transcriptionIdCounter' # transcriptionIdCounter
       => \A a \in Attempts, segs \in SegmentLists(Texts),
             p \in Participants \ {"local"}, d \in Dates :
            onTranscriptionReceived(a, segs, p, d, MaxEntries)
            => /\ Len(transcription') = Len(transcription) + Len(segs)
               /\ IsPrefix(transcription, transcription')
               /\ \A k \in 1..Len(segs) :
                    LET entry == transcription'[Len(transcription) + k] IN
                    /\ entry.speaker = "agent"
                    /\ entry.text = segs[k].text
                    /\ entry.isFinal = segs[k].final
               /\ UNCHANGED <<isUserSpeaking, isTranscribing, timers>>]_vars

\* the user was heard (a segment that is not final), then a final segment of
\* the agent arrived: the flags are still set and no reset is pending
C22_Witness ==
  /\ Len(transcription) = 2
  /\ transcription[1].speaker = "user" /\ ~transcription[1].isFinal
  /\ transcription[2].speaker = "agent" /\ transcription[2].isFinal
  /\ isUserSpeaking /\ isTranscribing
  /\ timers = <<>>

\* one session and its microphone: the enabling started by the Connected
\* handler, the toggles of the user, the end of the session
NextMic ==
  \/ render
  \/ StartSteps(1)
  \/ ConnectionSteps
  \/ MicSteps
  \/ StopSteps(1, 0)
  \/ ToggleSteps

SpecMic == Init /\ [][NextMic]_vars

\* C23: a toggleMic call changes no state of the hook and no ref; without a
\* room it reports "no session" and starts nothing, with a room it asks for
\* the opposite of the isMicOn of its render.  When the setMicrophoneEnabled
\* call of a toggle settles, nothing but isMicOn changes: it is unchanged when
\* the call failed, and it is what the toggle asked for when the call
\* succeeded.  The lifecycle state changes in none of these steps.
C23_ToggleLocal ==
  [][/\ lastOp'.op = "toggleMic"
        => /\ UNCHANGED <<reactVars, refVars>>
           /\ roomRef = NULL
                => lastOp'.res = "noSession" /\ UNCHANGED togglePc
           /\ roomRef # NULL
                => togglePc' = IF rendered.isMicOn THEN "disabling"
                               ELSE "enabling"
     /\ (togglePc # "none" /\ togglePc' = "none")
        => /\ UNCHANGED <<inferenceState, isLoading, isConnected,
                          isUserSpeaking, isTranscribing, transcription,
                          transcriptionUpdateTrigger, refVars>>
           /\ toggleRejected => UNCHANGED isMicOn
           /\ toggleResolved => isMicOn' = (togglePc = "enabling")]_vars

\* the session is ACTIVE, the Connected handler had turned the microphone on
\* and a toggle that succeeded has turned it off
C23_Witness ==
  /\ inferenceState = "ACTIVE"
  /\ isConnected
  /\ micPc[1] = "enabled"
  /\ ~isMicOn
  /\ togglePc = "none"

\* C24: in every state, isConnected is true exactly when the lifecycle state
\* is ACTIVE.
C24_ConnectedIffActive == isConnected <=> inferenceState = "ACTIVE"

\* C25: in every state, isMicOn is true only if the lifecycle state is ACTIVE.
C25_MicOnOnlyActive == isMicOn => inferenceState = "ACTIVE"

\* C26: in every state where the lifecycle state is IDLE and no reset timer
\* is pending, isTranscribing is false.
C26_IdleNotTranscribing ==
  (inferenceState = "IDLE" /\ timers = <<>>) => ~isTranscribing

====
